---- MODULE Spec2Model ----
(***************************************************************************)
(* cadasta/spatial/models.py: the SpatialUnit and SpatialUnitRelationship  *)
(* tables, the cascade deletes declared on their foreign keys, and         *)
(* SpatialUnitRelationshipManager.create with its containment gate.        *)
(***************************************************************************)
EXTENDS Integers, FiniteSets, Sequences, Bags, TLC

VARIABLES
    projects,   \* ids of the stored Project rows
    units,      \* stored SpatialUnit rows: [id, project, geometry]
    rels,       \* stored SpatialUnitRelationship rows, a bag of [project, su1, su2, type]
    call,       \* keyword arguments of the create call under analysis
    pending,    \* the inserts of the create calls whose query has returned a row, a bag
    result      \* what the last operation did

vars == <<projects, units, rels, call, pending, result>>

\* ---------------------------------------------------------------- bounds
\* Rows the relationship table may hold; the ids below bound projects and units.
MaxRels == 2

\* Create calls that may be between their query and their insert at one time.
MaxPending == 2

\* RandomIDModel: ids are opaque random strings.
ProjectIds == {"p1", "p2"}
UnitIds == {"u1", "u2"}

\* ------------------------------------------------------------ geometries
\* geometry = GeometryField(null=True). A geometry is an axis-aligned
\* figure on the diagonal: a square [lo,lo]-[hi,hi] or a point (lo,lo).
NullGeom == [geom_type |-> "None", lo |-> 0, hi |-> 0]
Square010 == [geom_type |-> "Polygon", lo |-> 0, hi |-> 10]
Square01 == [geom_type |-> "Polygon", lo |-> 0, hi |-> 1]
Point5 == [geom_type |-> "Point", lo |-> 5, hi |-> 5]

Geometries == {NullGeom, Square010, Square01, Point5}

\* Topological dimension: a polygon is a surface, a point is a point.
Dimension(g) == IF g.geom_type = "Polygon" THEN 2 ELSE 0

\* geometry__contains: no point of b lies outside a, and the interiors meet.
\* A NULL column matches nothing.
Contains(a, b) ==
    /\ a # NullGeom
    /\ b # NullGeom
    /\ Dimension(b) <= Dimension(a)
    /\ a.lo <= b.lo
    /\ b.hi <= a.hi
    /\ (Dimension(b) < Dimension(a) /\ b.lo = b.hi) => (a.lo < b.lo /\ b.hi < a.hi)

\* ------------------------------------------------------------ the tables
\* SpatialUnitRelationship.TYPE_CHOICES
TYPE_CHOICES == {"C", "S", "M"}

\* An in-memory SpatialUnit instance handed to create: the id it carries and
\* the geometry it carries (which need not be what the table stores).
Instances == [id : UnitIds, geometry : Geometries]

\* The instance obtained by loading a stored row.
Instance(row) == [id |-> row.id, geometry |-> row.geometry]

StoredIds(table) == {r.id : r \in table}

\* ------------------------------------------------------- keyword arguments
\* **kwargs is a dict: a key that the caller did not pass is absent.
KwargNames == {"project", "su1", "su2", "type"}

FullKwargs(p, s1, s2, t) == [project |-> p, su1 |-> s1, su2 |-> s2, type |-> t]

Restrict(kw, keys) == [k \in keys |-> kw[k]]

AllKwargs ==
    UNION {{Restrict(FullKwargs(p, s1, s2, t), keys) :
                p \in ProjectIds, s1 \in Instances, s2 \in Instances, t \in TYPE_CHOICES} :
           keys \in SUBSET KwargNames}

Has(kwargs, k) == k \in DOMAIN kwargs

\* --------------------------------------- SpatialUnitRelationshipManager.create
\* kwargs['su1'].geometry is not None
SubjectHasGeometry(kwargs) == kwargs.su1.geometry # NullGeom

\* The test of su2's geometry left out.
ObjectAssumedPresent(kwargs) == TRUE

\* kwargs['su2'].geometry is not None
ObjectHasGeometry(kwargs) == kwargs.su2.geometry # NullGeom

\* The test of the type left out.
AnyType(kwargs) == TRUE

\* kwargs['type'] == 'C'
IsContainedIn(kwargs) == kwargs.type = "C"

\* The test of the kind of geometry left out.
SubjectAnyShape(kwargs) == TRUE

\* kwargs['su1'].geometry.geom_type == 'Polygon'
SubjectIsPolygon(kwargs) == kwargs.su1.geometry.geom_type = "Polygon"

\* The gate of create, evaluated on the passed instances in Python's order:
\* `and` short-circuits, and a subscript of kwargs with a key that was not
\* passed raises KeyError. "insert": control goes to super().create without a
\* query; "query": control reaches the containment query.
Gate(kwargs) ==
    IF ~Has(kwargs, "su1") THEN "KeyError"
    ELSE IF ~SubjectHasGeometry(kwargs) THEN "insert"
    ELSE IF ~Has(kwargs, "su2") THEN "KeyError"
    ELSE IF ~ObjectHasGeometry(kwargs) THEN "insert"
    ELSE IF ~Has(kwargs, "type") THEN "KeyError"
    ELSE IF ~(IsContainedIn(kwargs) /\ SubjectIsPolygon(kwargs)) THEN "insert"
    ELSE "query"

\* filter(id=kwargs['su1'].id).filter(geometry__contains=kwargs['su2'].geometry):
\* the parameters of the query.
QueryParams(kwargs) == [id |-> kwargs.su1.id, contains |-> kwargs.su2.geometry]

NoQuery == [id |-> "", contains |-> NullGeom]

\* The column values super().create(**kwargs) is given: a foreign key is
\* stored as the id of the instance passed for it.
RowArgs(kwargs) ==
    [k \in DOMAIN kwargs |-> IF k \in {"su1", "su2"} THEN kwargs[k].id ELSE kwargs[k]]

NoRowArgs == Restrict(FullKwargs("", "", "", ""), {})

\* What a call sends to the database, fixed by its arguments alone: nothing
\* when the gate raises KeyError, else the insert, after the query if the
\* gate asks for it.
Plan(kwargs) ==
    LET gate == Gate(kwargs) IN
    [gate |-> gate,
     row |-> IF gate = "KeyError" THEN NoRowArgs ELSE RowArgs(kwargs),
     query |-> IF gate = "query" THEN QueryParams(kwargs) ELSE NoQuery]

\* The containment asked the other way round: su2 contains su1.
QueryResultConverse(unitRows, q) ==
    {r \in unitRows : r.id = q.id /\ Contains(q.contains, r.geometry)}

\* The filter on su1's id left out.
QueryResultAnyUnit(unitRows, q) ==
    {r \in unitRows : Contains(r.geometry, q.contains)}

\* SpatialUnit.objects.filter(id=...).filter(geometry__contains=...): the SELECT.
QueryResult(unitRows, q) ==
    {r \in unitRows : r.id = q.id /\ Contains(r.geometry, q.contains)}

\* The INSERT of super().create goes through when its three non-null foreign
\* keys are given and reference stored rows.
ForeignKeysValid(projectIds, unitRows, row) ==
    /\ Has(row, "project") /\ row.project \in projectIds
    /\ Has(row, "su1") /\ row.su1 \in StoredIds(unitRows)
    /\ Has(row, "su2") /\ row.su2 \in StoredIds(unitRows)

\* The row super().create(**kwargs) inserts; a CharField that is not given
\* is stored as the empty string.
NewRow(row) ==
    [project |-> row.project, su1 |-> row.su1, su2 |-> row.su2,
     type |-> IF Has(row, "type") THEN row.type ELSE ""]

Outcome(outcome, raised_in, queried) ==
    [op |-> "create", outcome |-> outcome, raised_in |-> raised_in,
     queried |-> queried, rows |-> IF outcome = "created" THEN 1 ELSE 0, indirect |-> 0]

\* The relationship table holds rows that differ only in their random id as
\* copies of one element: the id of a relationship is never read.
Rows(relRows) == BagToSet(relRows)

Insert(relRows, row) == relRows (+) SetToBag({row})

Without(relRows, gone) == [r \in Rows(relRows) \ gone |-> relRows[r]]

\* One copy of `row` taken out.
Take(relRows, row) ==
    [r \in {x \in Rows(relRows) : x # row \/ relRows[x] > 1} |->
        IF r = row THEN relRows[r] - 1 ELSE relRows[r]]

\* super().create(**kwargs), lines 101 and 110: one INSERT statement.
SuperCreate(row, queried) ==
    IF ForeignKeysValid(projects, units, row)
    THEN /\ BagCardinality(rels) < MaxRels
         /\ rels' = Insert(rels, NewRow(row))
         /\ result' = Outcome("created", "none", queried)
    ELSE /\ rels' = rels
         /\ result' = Outcome("IntegrityError", "persistence", queried)

\* The row written before the containment is checked.
StartWritesFirst(plan) ==
    /\ BagCardinality(rels) < MaxRels
    /\ plan.gate = "query"
    /\ Cardinality(QueryResult(units, plan.query)) = 0
    /\ ForeignKeysValid(projects, units, plan.row)
    /\ rels' = Insert(rels, NewRow(plan.row))
    /\ result' = Outcome("SpatialUnitRelationshipError", "manager", TRUE)
    /\ UNCHANGED <<projects, units, call, pending>>

\* The empty query result not raised on.
StartNeverRaises(plan) ==
    /\ plan.gate = "query"
    /\ BagCardinality(pending) < MaxPending
    /\ pending' = Insert(pending, plan.row)
    /\ result' = Outcome("querying", "none", TRUE)
    /\ UNCHANGED <<projects, units, rels, call>>

\* A call up to and including its first database statement: the KeyError of
\* the gate; or the insert, when the gate asks for no query; or the query
\* (lines 96-100), which raises on an empty result and otherwise leaves the
\* insert of line 101 to a later step. Each statement is a step of its own:
\* other requests, create calls among them, may run between the query and
\* the insert.
\* The call reads the relationship table nowhere: it runs whatever that
\* table holds, and MaxRels stops the INSERT alone.
Start(plan) ==
    /\ CASE plan.gate = "KeyError" ->
              /\ result' = Outcome("KeyError", "manager", FALSE)
              /\ UNCHANGED <<rels, pending>>
         [] plan.gate = "insert" ->
              /\ SuperCreate(plan.row, FALSE)
              /\ UNCHANGED pending
         [] plan.gate = "query" ->
              IF Cardinality(QueryResult(units, plan.query)) # 0
              THEN /\ BagCardinality(pending) < MaxPending
                   /\ pending' = Insert(pending, plan.row)
                   /\ result' = Outcome("querying", "none", TRUE)
                   /\ UNCHANGED rels
              ELSE /\ result' = Outcome("SpatialUnitRelationshipError", "manager", TRUE)
                   /\ UNCHANGED <<rels, pending>>
    /\ UNCHANGED <<projects, units, call>>

\* The insert of line 101, after the query returned a row.
Finish ==
    /\ \E row \in Rows(pending) :
          /\ SuperCreate(row, TRUE)
          /\ pending' = Take(pending, row)
    /\ UNCHANGED <<projects, units, call>>

\* SpatialUnitRelationship.objects.create(**kwargs), up to its first statement.
ManagerCreate(kwargs) == Start(Plan(kwargs))

\* ------------------------------------------------------------ cascades
\* The cascade declared on su1 alone.
CascadeSubjectOnly(relRows, gone) ==
    {r \in Rows(relRows) : r.su1 \in gone}

\* su1/su2 = ForeignKey(SpatialUnit, on_delete=CASCADE): the rows that go
\* when the units in `gone` are deleted.
CascadeUnits(relRows, gone) ==
    {r \in Rows(relRows) : r.su1 \in gone \/ r.su2 \in gone}

\* project = ForeignKey(Project, on_delete=CASCADE) on SpatialUnit
CascadeProjectUnits(unitRows, p) == {r \in unitRows : r.project = p}

\* project = ForeignKey(Project, on_delete=CASCADE) on SpatialUnitRelationship
CascadeProjectRels(relRows, p) == {r \in Rows(relRows) : r.project = p}

\* A table operation that went through: `rows` relationship rows went with
\* it, `indirect` of them only because a unit they reference went.
Done(op, n, m) ==
    [op |-> op, outcome |-> "ok", raised_in |-> "none", queried |-> FALSE,
     rows |-> n, indirect |-> m]

Count(relRows, which) == BagCardinality(relRows) - BagCardinality(Without(relRows, which))

\* ------------------------------------------------------------ operations
AddProject(p) ==
    /\ p \notin projects
    /\ projects' = projects \cup {p}
    /\ result' = Done("save", 0, 0)
    /\ UNCHANGED <<units, rels, call, pending>>

\* The relationships of other projects kept when their units go.
DeleteProjectOwnRows(p) ==
    /\ p \in projects
    /\ LET goneUnits == CascadeProjectUnits(units, p)
           goneRels == CascadeProjectRels(rels, p)
       IN /\ projects' = projects \ {p}
          /\ units' = units \ goneUnits
          /\ rels' = Without(rels, goneRels)
          /\ result' = Done("delete_project", Count(rels, goneRels), 0)
    /\ UNCHANGED <<call, pending>>

DeleteProject(p) ==
    /\ p \in projects
    /\ LET goneUnits == CascadeProjectUnits(units, p)
           goneRels == CascadeProjectRels(rels, p)
                         \cup CascadeUnits(rels, StoredIds(goneUnits))
       IN /\ projects' = projects \ {p}
          /\ units' = units \ goneUnits
          /\ rels' = Without(rels, goneRels)
          /\ result' = Done("delete_project", Count(rels, goneRels),
                           Count(rels, goneRels \ CascadeProjectRels(rels, p)))
    /\ UNCHANGED <<call, pending>>

\* The unit ids that the calls between their query and their insert hold.
HeldIds(pend) == UNION {{row.su1, row.su2} : row \in Rows(pend)}

\* SpatialUnit.objects.create(project=p, geometry=g): a new row under a
\* random id, which is an id no stored row and no call in flight has.
SaveUnit(u, p, g) ==
    /\ u \notin StoredIds(units)
    /\ u \notin HeldIds(pending)
    /\ p \in projects
    /\ units' = units \cup {[id |-> u, project |-> p, geometry |-> g]}
    /\ result' = Done("save", 0, 0)
    /\ UNCHANGED <<projects, rels, call, pending>>

\* unit.geometry = g; unit.save()
UpdateGeometry(u, g) ==
    /\ \E r \in units :
          /\ r.id = u
          /\ r.geometry # g
          /\ units' = (units \ {r}) \cup {[r EXCEPT !.geometry = g]}
    /\ result' = Done("save", 0, 0)
    /\ UNCHANGED <<projects, rels, call, pending>>

\* unit.delete()
DeleteUnit(u) ==
    /\ u \in StoredIds(units)
    /\ LET goneRels == CascadeUnits(rels, {u})
       IN /\ units' = {r \in units : r.id # u}
          /\ rels' = Without(rels, goneRels)
          /\ result' = Done("delete_unit", Count(rels, goneRels), Count(rels, goneRels))
    /\ UNCHANGED <<projects, call, pending>>

\* ------------------------------------------------------------ specifications
NoKwargs == Restrict(FullKwargs("", NullGeom, NullGeom, ""), {})

Idle == Done("none", 0, 0)

\* The empty database.
Init ==
    /\ projects = {}
    /\ units = {}
    /\ rels = EmptyBag
    /\ call = NoKwargs
    /\ pending = EmptyBag
    /\ result = Idle

\* The project of the first specification.
OneProject == "p1"

\* The plans of the calls that name that project, with any instances and any
\* other keyword arguments.
PlansInProject ==
    {Plan(kwargs) : kwargs \in {kw \in AllKwargs : Has(kw, "project") /\ kw.project = OneProject}}

CreateInProject == \E plan \in PlansInProject : Start(plan)

\* The units and relationships of one project under concurrent requests, one
\* database statement per step: units are saved, updated and deleted, the
\* project is deleted and made again, and create calls overlap one another
\* and the other operations.
Next ==
    \/ AddProject(OneProject)
    \/ DeleteProject(OneProject)
    \/ \E u \in UnitIds, g \in Geometries : SaveUnit(u, OneProject, g)
    \/ \E u \in UnitIds, g \in Geometries : UpdateGeometry(u, g)
    \/ \E u \in UnitIds : DeleteUnit(u)
    \/ CreateInProject
    \/ Finish

Spec == Init /\ [][Next]_vars

\* The geometries units are saved with in the specification of projects.
SavedShapes == {NullGeom, Square010}

\* The plans of the calls that pass type 'C', with any instances, any project
\* and any other keyword arguments.
ContainedInPlans ==
    {Plan(kwargs) : kwargs \in {kw \in AllKwargs : Has(kw, "type") /\ kw.type = "C"}}

CreateContainedIn == \E plan \in ContainedInPlans : Start(plan)

\* Two projects under concurrent requests: projects and units are made and
\* deleted, and create calls of type 'C' overlap one another and the deletes.
NextProjects ==
    \/ \E p \in ProjectIds : AddProject(p)
    \/ \E p \in ProjectIds : DeleteProject(p)
    \/ \E u \in UnitIds, p \in ProjectIds, g \in SavedShapes : SaveUnit(u, p, g)
    \/ \E u \in UnitIds : DeleteUnit(u)
    \/ CreateContainedIn
    \/ Finish

SpecProjects == Init /\ [][NextProjects]_vars

\* A table of units with one row per id, each in a stored project.
UnitTables(projectIds) ==
    {t \in SUBSET [id : UnitIds, project : projectIds, geometry : Geometries] :
        \A r1, r2 \in t : r1.id = r2.id => r1 = r2}

\* One request on its own: any units and projects, any keyword arguments,
\* then the call, with no other request between its statements.
InitCreate ==
    /\ projects \in SUBSET ProjectIds
    /\ units \in UnitTables(projects)
    /\ rels = EmptyBag
    /\ call \in AllKwargs
    /\ pending = EmptyBag
    /\ result = Idle

NextCreate == ManagerCreate(call) \/ Finish

SpecCreate == InitCreate /\ [][NextCreate]_vars

\* The calls whose gate asks for the containment query.
GatedKwargs == {kwargs \in AllKwargs : Gate(kwargs) = "query"}

\* A call that runs the query, among other requests: any units and projects,
\* then the statements of the call, repeated and overlapping, with deletes
\* and geometry updates of other requests before, between and after them.
InitRaced ==
    /\ projects \in SUBSET ProjectIds
    /\ units \in UnitTables(projects)
    /\ rels = EmptyBag
    /\ call \in GatedKwargs
    /\ pending = EmptyBag
    /\ result = Idle

NextRaced ==
    \/ ManagerCreate(call)
    \/ Finish
    \/ \E u \in UnitIds : DeleteUnit(u)
    \/ \E u \in UnitIds, g \in Geometries : UpdateGeometry(u, g)
    \/ \E p \in ProjectIds : DeleteProject(p)

SpecRaced == InitRaced /\ [][NextRaced]_vars

\* ------------------------------------------------------------ the claims
\* The call under analysis has been made.
Called == result.op = "create" /\ result.outcome # "querying"

GivenAll == Has(call, "project") /\ Has(call, "su1") /\ Has(call, "su2") /\ Has(call, "type")

\* project, su1 and su2 were passed and each references a stored row.
ReferencesStored ==
    /\ Has(call, "project") /\ Has(call, "su1") /\ Has(call, "su2")
    /\ call.project \in projects
    /\ \E r \in units : r.id = call.su1.id
    /\ \E r \in units : r.id = call.su2.id

\* The table holds a row made from the call's arguments.
Persisted ==
    /\ Has(call, "project") /\ Has(call, "su1") /\ Has(call, "su2")
    /\ \E r \in Rows(rels) :
          /\ r.project = call.project
          /\ r.su1 = call.su1.id
          /\ r.su2 = call.su2.id
          /\ Has(call, "type") => r.type = call.type

NothingPersisted == rels = EmptyBag

\* The row stored under su1's id contains the geometry the passed su2 carries.
StoredContains ==
    \E r \in units : r.id = call.su1.id /\ Contains(r.geometry, call.su2.geometry)

\* Type 'C', the passed su1 carries a Polygon, the passed su2 a geometry.
ContainmentCase ==
    /\ Has(call, "su1") /\ Has(call, "su2") /\ Has(call, "type")
    /\ call.type = "C"
    /\ call.su1.geometry.geom_type = "Polygon"
    /\ call.su2.geometry # NullGeom

Succeeded == result.outcome = "created" /\ Persisted

ContainmentError ==
    /\ result.outcome = "SpatialUnitRelationshipError"
    /\ NothingPersisted

\* C1 (as stated): a type-'C' call with a Polygon su1 and a su2 that has a
\* geometry succeeds and persists the row iff the stored su1 polygon contains
\* su2's geometry, and otherwise fails with SpatialUnitRelationshipError and
\* persists nothing.
C1_SucceedsIffContained ==
    (Called /\ ContainmentCase) =>
        IF StoredContains THEN Succeeded ELSE ContainmentError

\* C1 (amended): for such a call, the query raises the containment error
\* exactly when the row stored under su1's id, if any, does not contain su2's
\* geometry as the query runs; otherwise the call goes on to the insert, which
\* persists the row exactly when project, su1 and su2 reference stored rows
\* as it runs, and otherwise fails with the persistence layer's error; a
\* failure of either kind persists nothing.
C1_QueryThenInsertDecide ==
    /\ []((result.op = "create" /\ ContainmentCase) =>
            /\ result.outcome \in {"querying", "SpatialUnitRelationshipError",
                                   "created", "IntegrityError"}
            /\ result.outcome = "querying" => StoredContains
            /\ result.outcome = "SpatialUnitRelationshipError" => ~StoredContains
            /\ result.outcome = "created" => (ReferencesStored /\ Persisted)
            /\ result.outcome = "IntegrityError" =>
                  (~ReferencesStored /\ result.raised_in = "persistence"))
    /\ [][(result'.op = "create" /\ ContainmentCase) =>
             /\ result'.outcome \in {"created", "IntegrityError"} =>
                   \E row \in Rows(pending) : pending' = Take(pending, row)
             /\ IF result'.outcome = "created"
                THEN rels' = Insert(rels, NewRow(RowArgs(call)))
                ELSE rels' = rels]_vars

\* The stored Square010 contained the passed Point5 at the query and the
\* references were stored at the insert.
C1_Witness ==
    /\ Called /\ ContainmentCase /\ ReferencesStored
    /\ call.su2.geometry = Point5
    /\ \E r \in units : r.id = call.su1.id /\ r.geometry = Square010
    /\ result.queried
    /\ Succeeded

\* C2: no statement of a create call touches projects or units; a call that
\* fails leaves the relationship rows as they were, and one that succeeds adds
\* exactly one relationship row.
C2_NoPartialWrite ==
    [][result'.op = "create" =>
          /\ projects' = projects
          /\ units' = units
          /\ IF result'.outcome = "created"
             THEN /\ BagCardinality(rels') = BagCardinality(rels) + 1
                  /\ \E row \in Rows(rels') : rels' = rels (+) SetToBag({row})
             ELSE rels' = rels]_vars

\* A call failed on its query while the table held a row.
C2_Witness ==
    /\ result.op = "create"
    /\ result.outcome = "SpatialUnitRelationshipError"
    /\ BagCardinality(rels) >= 1

\* C3: a call of type 'S' or 'M' whose project, su1 and su2 reference stored
\* rows performs no containment query and persists the row, whatever the
\* geometries are.
C3_OtherTypesNeverChecked ==
    (Called /\ GivenAll /\ call.type \in {"S", "M"} /\ ReferencesStored) =>
        (Succeeded /\ ~result.queried)

C3_Witness ==
    /\ Called /\ GivenAll /\ call.type = "S" /\ ReferencesStored
    /\ call.su1.geometry = Square01
    /\ call.su2.geometry = Point5
    /\ ~StoredContains
    /\ Succeeded

\* su1 was passed and carries no geometry, or su2 was and carries none.
NullGeometryCase ==
    \/ Has(call, "su1") /\ call.su1.geometry = NullGeom
    \/ Has(call, "su2") /\ call.su2.geometry = NullGeom

\* C4 (as stated): a call in which su1's or su2's geometry is null succeeds and
\* persists the row for every type, and issues no containment query.
C4_NullGeometryAlwaysSucceeds ==
    (Called /\ NullGeometryCase) => (Succeeded /\ ~result.queried)

\* C4 (amended): the same, for calls whose project, su1 and su2 reference
\* stored rows.
C4_NullGeometrySucceedsGivenReferences ==
    (Called /\ NullGeometryCase /\ ReferencesStored) => (Succeeded /\ ~result.queried)

C4_Witness ==
    /\ Called /\ ReferencesStored /\ Has(call, "type") /\ call.type = "C"
    /\ call.su1.geometry = Square01
    /\ call.su2.geometry = NullGeom
    /\ Succeeded

\* Type 'C', both passed geometries present, su1's not a Polygon.
NonPolygonCase ==
    /\ Has(call, "su1") /\ Has(call, "su2") /\ Has(call, "type")
    /\ call.type = "C"
    /\ call.su1.geometry # NullGeom
    /\ call.su2.geometry # NullGeom
    /\ call.su1.geometry.geom_type # "Polygon"

\* C5 (as stated): a type-'C' call with both geometries present and su1's
\* geometry not a Polygon skips the containment check and persists the row.
C5_NonPolygonSubjectAlwaysSucceeds ==
    (Called /\ NonPolygonCase) => (Succeeded /\ ~result.queried)

\* C5 (amended): the same, for calls whose project, su1 and su2 reference
\* stored rows.
C5_NonPolygonSubjectSucceedsGivenReferences ==
    (Called /\ NonPolygonCase /\ ReferencesStored) => (Succeeded /\ ~result.queried)

C5_Witness ==
    /\ Called /\ NonPolygonCase /\ ReferencesStored
    /\ call.su1.geometry = Point5
    /\ call.su2.geometry = Square01
    /\ ~StoredContains
    /\ Succeeded

\* Every relationship row references two stored units.
EndpointsStored ==
    \A r \in Rows(rels) : r.su1 \in StoredIds(units) /\ r.su2 \in StoredIds(units)

\* C6: deleting a unit removes the relationship rows that have it as su1 or as
\* su2 and no other row, and every stored relationship row references two
\* stored units.
C6_UnitDeleteCascades ==
    /\ []EndpointsStored
    /\ [][result'.op = "delete_unit" =>
            \E u \in StoredIds(units) \ StoredIds(units') :
                /\ Rows(rels') = {r \in Rows(rels) : r.su1 # u /\ r.su2 # u}
                /\ \A r \in Rows(rels') : rels'[r] = rels[r]]_vars

\* A unit delete took a relationship row with it and left another.
C6_Witness ==
    /\ result.op = "delete_unit"
    /\ result.rows >= 1
    /\ BagCardinality(rels) >= 1

\* C7: deleting a project removes its units, its relationship rows and the
\* relationship rows of any project that reference a removed unit, and nothing
\* else; afterwards no row references the project or a removed unit.
C7_ProjectDeleteCascades ==
    /\ [](\A r \in units : r.project \in projects)
    /\ [](\A r \in Rows(rels) : r.project \in projects)
    /\ [][result'.op = "delete_project" =>
            \E p \in projects \ projects' :
                LET gone == {r.id : r \in {x \in units : x.project = p}} IN
                /\ units' = {r \in units : r.project # p}
                /\ Rows(rels') = {r \in Rows(rels) :
                                     r.project # p /\ r.su1 \notin gone /\ r.su2 \notin gone}
                /\ \A r \in Rows(rels') : rels'[r] = rels[r]
                /\ \A r \in Rows(rels') :
                      r.su1 \in StoredIds(units') /\ r.su2 \in StoredIds(units')]_vars

\* A project delete took a row of the other project with it, through a unit,
\* and left another row.
C7_Witness ==
    /\ result.op = "delete_project"
    /\ result.indirect >= 1
    /\ BagCardinality(rels) >= 1

\* C8: the only failure that originates in the manager is the containment error.
C8_OnlyContainmentErrorFromManager ==
    result.raised_in = "manager" => result.outcome = "SpatialUnitRelationshipError"

\* The stored data of a type-'C' row satisfy the containment rule.
RuleHolds(r, unitRows) ==
    \A a, b \in unitRows :
        (a.id = r.su1 /\ b.id = r.su2 /\ a.geometry.geom_type = "Polygon"
            /\ b.geometry # NullGeom)
        => Contains(a.geometry, b.geometry)

\* C9 (as stated): in every reachable state every stored type-'C' relationship
\* whose su1 stores a Polygon and whose su2 stores a geometry has su1's polygon
\* containing su2's geometry.
C9_ContainmentRemainsTrue ==
    \A r \in Rows(rels) : r.type = "C" => RuleHolds(r, units)

\* The endpoints of the type-'C' rows, stored or about to be inserted by a
\* call whose query has returned a row, that break the containment rule.
Broken(unitRows, relRows, pend) ==
    {e \in {[su1 |-> r.su1, su2 |-> r.su2] : r \in {x \in Rows(relRows) : x.type = "C"}}
            \cup {[su1 |-> row.su1, su2 |-> row.su2] : row \in Rows(pend)} :
        ~RuleHolds(e, unitRows)}

\* The calls that pass instances as the stored rows are.
LoadedKwargs(unitRows) ==
    UNION {{Restrict(FullKwargs(p, Instance(a), Instance(b), t), keys) :
                p \in ProjectIds, a \in unitRows, b \in unitRows, t \in TYPE_CHOICES} :
           keys \in SUBSET KwargNames}

\* A step of any operation but a geometry update and a create call that
\* passes an instance whose geometry is not the stored one.
NoUpdateNoStale ==
    \/ \E p \in ProjectIds : AddProject(p) \/ DeleteProject(p)
    \/ \E u \in UnitIds, p \in ProjectIds, g \in Geometries : SaveUnit(u, p, g)
    \/ \E u \in UnitIds : DeleteUnit(u)
    \/ Finish
    \/ \E kwargs \in LoadedKwargs(units) : ManagerCreate(kwargs)

\* C9 (amended): no operation other than a geometry update and a create call
\* passed an instance whose geometry is not the stored one makes a type-'C'
\* relationship break the containment rule, a call between its query and its
\* insert counted by the row it is about to insert; so the rule holds in
\* every state reached from the empty database without those two.
C9_RuleKeptWithoutUpdates ==
    [][\/ Broken(units', rels', pending') \subseteq Broken(units, rels, pending)
       \/ ~NoUpdateNoStale]_vars

\* A stored type-'C' row made through the query, its su1 storing a polygon
\* that contains the geometry its su2 stores.
C9_Witness ==
    /\ result.op = "create"
    /\ result.outcome = "created"
    /\ result.queried
    /\ Broken(units, rels, pending) = {}
    /\ \E r \in Rows(rels), a, b \in units :
          /\ r.type = "C" /\ a.id = r.su1 /\ b.id = r.su2
          /\ a.geometry = Square010 /\ b.geometry = Point5

\* C10: the gate is decided by the passed instances, the containment by the
\* row stored under su1's id and the geometry the passed su2 carries: with the
\* gate open, a missing row or a stored geometry that does not contain su2's
\* makes the call fail with the containment error and insert nothing,
\* whatever geometry the passed su1 carries.
C10_StoredRowDecides ==
    Called =>
        /\ result.queried <=> ContainmentCase
        /\ (ContainmentCase /\ ~StoredContains) => ContainmentError

C10_Witness ==
    /\ Called /\ ContainmentCase /\ ReferencesStored
    /\ Contains(call.su1.geometry, call.su2.geometry)
    /\ ~StoredContains
    /\ ContainmentError

====
